---------------------------- MODULE Spec2Model ----------------------------
(***************************************************************************)
(* Model of userspace/engine/evttype_index_ruleset.cpp: the event-type     *)
(* indexed ruleset (evttype_index_ruleset) and its per-ruleset index       *)
(* (evttype_index_ruleset::ruleset_filters).                               *)
(*                                                                         *)
(* filter_wrapper objects live in `heap`, addressed by handles; a handle   *)
(* stands for the shared_ptr value, so that lists and sets of wrappers     *)
(* compare by identity as std::find and std::set do in the code.  A set of *)
(* wrappers is iterated in handle order (the order of the pointers).       *)
(* Strings are sequences of one-character strings.                         *)
(***************************************************************************)
EXTENDS Integers, Sequences, FiniteSets, TLC

VARIABLES heap, m_filters, m_rulesets, op, pre

vars == <<heap, m_filters, m_rulesets, op, pre>>

-----------------------------------------------------------------------------
(* Bounds of the model *)

(* wrappers the registry holds at a time *)
MaxEntries == 2

(* wrappers a client of one ruleset_filters object holds at a time *)
MaxWrappers == 3

MaxRulesetId == 1

MaxEvtType == 4

Handles == 1..MaxEntries

RulesetIds == 0..MaxRulesetId

(* ppm_event_code values; the two codes the code names keep their order    *)
(* (plugin event below async event) on a scaled-down code space.           *)
PPME_PLUGINEVENT_E == 2

PPME_ASYNCEVENT_E == 3

EvtTypes == 0..MaxEvtType

Payloads == {0, 1}

Events == [type : EvtTypes, pay : Payloads]

-----------------------------------------------------------------------------
(* Values *)

syscall_source == "syscall"

plugin_source == "plugin"

NoWrap == [free |-> TRUE]

NoRule == [name |-> <<>>, tags |-> {}, source |-> "none"]

npos == -1

SetMin(S) == CHOOSE x \in S : \A y \in S : x <= y

(* The wrappers of a std::set<shared_ptr<filter_wrapper>> in iteration order *)
RECURSIVE SetToSeq(_)
SetToSeq(S) ==
    IF S = {} THEN <<>>
    ELSE LET x == SetMin(S) IN <<x>> \o SetToSeq(S \ {x})

SeqToSet(s) == {s[i] : i \in 1..Len(s)}

-----------------------------------------------------------------------------
(* std::string operations used by enable_disable *)

OccursAt(s, p, i) ==
    /\ i + Len(p) <= Len(s)
    /\ \A k \in 1..Len(p) : s[i + k] = p[k]

(* std::string::find(p): first position (from 0) of p in s, or npos *)
StrFind(s, p) ==
    IF \E i \in 0..Len(s) : OccursAt(s, p, i)
    THEN SetMin({i \in 0..Len(s) : OccursAt(s, p, i)})
    ELSE npos

(* falco::utils::matches_wildcard: glob match where "*" stands for any run *)
RECURSIVE matches_wildcard(_, _)
matches_wildcard(pattern, s) ==
    IF pattern = <<>> THEN s = <<>>
    ELSE IF Head(pattern) = "*"
         THEN \E k \in 0..Len(s) :
                 matches_wildcard(Tail(pattern), SubSeq(s, k + 1, Len(s)))
         ELSE /\ s # <<>>
              /\ Head(s) = Head(pattern)
              /\ matches_wildcard(Tail(pattern), Tail(s))

(* the switch of enable_disable, exact mode without the comparison of sizes *)
PatternMatches_prefix(match, pattern, name) ==
    CASE match = "exact" ->
            pattern = <<>> \/ StrFind(name, pattern) = 0
      [] match = "substring" ->
            pattern = <<>> \/ StrFind(name, pattern) # npos
      [] match = "wildcard" ->
            matches_wildcard(pattern, name)
      [] OTHER -> FALSE

(* the switch of enable_disable *)
PatternMatches(match, pattern, name) ==
    CASE match = "exact" ->
            LET pos == StrFind(name, pattern)
            IN  pattern = <<>> \/ (pos = 0 /\ Len(pattern) = Len(name))
      [] match = "substring" ->
            pattern = <<>> \/ StrFind(name, pattern) # npos
      [] match = "wildcard" ->
            matches_wildcard(pattern, name)
      [] OTHER -> FALSE

-----------------------------------------------------------------------------
(* ruleset_filters *)

EmptyRuleset ==
    [m_filter_by_event_type |-> <<>>,
     m_filter_all_event_types |-> <<>>,
     m_filters |-> {}]

(* add_wrapper_to_list with push_front in place of push_back *)
add_wrapper_to_list_front(wrappers, wrap) ==
    IF \E i \in 1..Len(wrappers) : wrappers[i] = wrap
    THEN wrappers
    ELSE <<wrap>> \o wrappers

add_wrapper_to_list(wrappers, wrap) ==
    IF \E i \in 1..Len(wrappers) : wrappers[i] = wrap
    THEN wrappers
    ELSE Append(wrappers, wrap)

remove_wrapper_from_list(wrappers, wrap) ==
    IF \E i \in 1..Len(wrappers) : wrappers[i] = wrap
    THEN LET pos == SetMin({i \in 1..Len(wrappers) : wrappers[i] = wrap})
         IN  SubSeq(wrappers, 1, pos - 1) \o SubSeq(wrappers, pos + 1, Len(wrappers))
    ELSE wrappers

(* std::vector::resize(n) on the vector of lists *)
Resize(v, n) ==
    [i \in 1..n |-> IF i <= Len(v) THEN v[i] ELSE <<>>]

(* the loop of add_filter over wrap->event_codes, in ascending order *)
RECURSIVE AddToBuckets(_, _, _)
AddToBuckets(by, codes, wrap) ==
    IF codes = {} THEN by
    ELSE LET etype == SetMin(codes)
             grown == IF Len(by) <= etype THEN Resize(by, etype + 1) ELSE by
         IN  AddToBuckets(
                [grown EXCEPT ![etype + 1] = add_wrapper_to_list(@, wrap)],
                codes \ {etype}, wrap)

(* the loop of remove_filter left after its first iteration *)
RemoveFromBuckets_first_only(by, codes, wrap) ==
    IF codes = {} THEN by
    ELSE LET etype == SetMin(codes)
         IN  IF etype < Len(by)
             THEN [by EXCEPT ![etype + 1] = remove_wrapper_from_list(@, wrap)]
             ELSE by

(* the loop of remove_filter over wrap->event_codes *)
RECURSIVE RemoveFromBuckets(_, _, _)
RemoveFromBuckets(by, codes, wrap) ==
    IF codes = {} THEN by
    ELSE LET etype == SetMin(codes)
         IN  RemoveFromBuckets(
                IF etype < Len(by)
                THEN [by EXCEPT ![etype + 1] = remove_wrapper_from_list(@, wrap)]
                ELSE by,
                codes \ {etype}, wrap)

add_filter(rs, wrap, h) ==
    LET codes == h[wrap].event_codes
    IN  IF codes = {}
        THEN [rs EXCEPT !.m_filter_all_event_types = add_wrapper_to_list(@, wrap),
                        !.m_filters = @ \cup {wrap}]
        ELSE [rs EXCEPT !.m_filter_by_event_type = AddToBuckets(@, codes, wrap),
                        !.m_filters = @ \cup {wrap}]

(* remove_filter without m_filters.erase(wrap) *)
remove_filter_no_erase(rs, wrap, h) ==
    LET codes == h[wrap].event_codes
    IN  IF codes = {}
        THEN [rs EXCEPT !.m_filter_all_event_types = remove_wrapper_from_list(@, wrap)]
        ELSE [rs EXCEPT !.m_filter_by_event_type = RemoveFromBuckets(@, codes, wrap)]

remove_filter(rs, wrap, h) ==
    LET codes == h[wrap].event_codes
    IN  IF codes = {}
        THEN [rs EXCEPT !.m_filter_all_event_types = remove_wrapper_from_list(@, wrap),
                        !.m_filters = @ \ {wrap}]
        ELSE [rs EXCEPT !.m_filter_by_event_type = RemoveFromBuckets(@, codes, wrap),
                        !.m_filters = @ \ {wrap}]

num_filters(rs) == Cardinality(rs.m_filters)

(* sinsp_filter::run(evt): a filter is the set of payloads it accepts *)
FilterRun(filter, evt) == evt.pay \in filter

(* The wrappers of a list whose filter is run by a loop that returns at    *)
(* the first true one: the prefix up to and including it.                  *)
RECURSIVE EvalUntilTrue(_, _, _)
EvalUntilTrue(list, evt, h) ==
    IF list = <<>> THEN <<>>
    ELSE IF FilterRun(h[Head(list)].filter, evt)
         THEN <<Head(list)>>
         ELSE <<Head(list)>> \o EvalUntilTrue(Tail(list), evt, h)

(* The rules pushed by a loop that runs every filter of a list *)
RECURSIVE CollectTrue(_, _, _)
CollectTrue(list, evt, h) ==
    IF list = <<>> THEN <<>>
    ELSE (IF FilterRun(h[Head(list)].filter, evt)
          THEN <<h[Head(list)].rule>> ELSE <<>>)
         \o CollectTrue(Tail(list), evt, h)

Hit(evald, evt, h) ==
    evald # <<>> /\ FilterRun(h[evald[Len(evald)]].filter, evt)

(* rs_run_one without the return inside the loops: the last true entry wins *)
rs_run_one_no_return(rs, evt, match, h) ==
    LET by == rs.m_filter_by_event_type
        bucket == IF evt.type < Len(by) THEN by[evt.type + 1] ELSE <<>>
        all == bucket \o rs.m_filter_all_event_types
        found == CollectTrue(all, evt, h)
    IN  [ret |-> found # <<>>,
         match |-> IF found # <<>> THEN found[Len(found)] ELSE match,
         evald |-> all]

(* ruleset_filters::run(evt, match): [ret, match, evald] *)
rs_run_one(rs, evt, match, h) ==
    LET by == rs.m_filter_by_event_type
        first == IF evt.type < Len(by)
                 THEN EvalUntilTrue(by[evt.type + 1], evt, h)
                 ELSE <<>>
    IN  IF Hit(first, evt, h)
        THEN [ret |-> TRUE, match |-> h[first[Len(first)]].rule, evald |-> first]
        ELSE LET second == EvalUntilTrue(rs.m_filter_all_event_types, evt, h)
             IN  IF Hit(second, evt, h)
                 THEN [ret |-> TRUE,
                       match |-> h[second[Len(second)]].rule,
                       evald |-> first \o second]
                 ELSE [ret |-> FALSE, match |-> match, evald |-> first \o second]

(* rs_run_all without the early return after the bucket *)
rs_run_all_no_early_return(rs, evt, matches, h) ==
    LET by == rs.m_filter_by_event_type
        bucket == IF evt.type < Len(by) THEN by[evt.type + 1] ELSE <<>>
        found == CollectTrue(bucket \o rs.m_filter_all_event_types, evt, h)
    IN  [ret |-> found # <<>>,
         matches |-> matches \o found,
         evald |-> bucket \o rs.m_filter_all_event_types]

(* rs_run_all that reports only the matches of the catch_all loop *)
rs_run_all_flag_reset(rs, evt, matches, h) ==
    LET by == rs.m_filter_by_event_type
        bucket == IF evt.type < Len(by) THEN by[evt.type + 1] ELSE <<>>
        found == CollectTrue(bucket, evt, h)
        rest == CollectTrue(rs.m_filter_all_event_types, evt, h)
    IN  IF found # <<>>
        THEN [ret |-> FALSE, matches |-> matches \o found, evald |-> bucket]
        ELSE [ret |-> rest # <<>>,
              matches |-> matches \o rest,
              evald |-> bucket \o rs.m_filter_all_event_types]

(* ruleset_filters::run(evt, matches): [ret, matches, evald] *)
rs_run_all(rs, evt, matches, h) ==
    LET by == rs.m_filter_by_event_type
        bucket == IF evt.type < Len(by) THEN by[evt.type + 1] ELSE <<>>
        found == CollectTrue(bucket, evt, h)
    IN  IF found # <<>>
        THEN [ret |-> TRUE, matches |-> matches \o found, evald |-> bucket]
        ELSE LET rest == CollectTrue(rs.m_filter_all_event_types, evt, h)
             IN  [ret |-> rest # <<>>,
                  matches |-> matches \o rest,
                  evald |-> bucket \o rs.m_filter_all_event_types]

-----------------------------------------------------------------------------
(* evttype_index_ruleset *)

(* libsinsp::filter::ast::ppm_sc_codes / ppm_event_codes: a condition is    *)
(* the pair of code sets its analysis yields, or a malformed expression on *)
(* which the analysis throws sinsp_exception.                              *)
ppm_sc_codes(condition) == condition.sc_codes

ppm_event_codes(condition) == condition.event_codes

AnalysisThrows(condition) == ~condition.ok

(* the wrapper of add with the codes of the condition for every source *)
MakeWrapper_any_source(rule, filter, condition) ==
    [rule |-> rule,
     filter |-> filter,
     sc_codes |-> ppm_sc_codes(condition),
     event_codes |-> ppm_event_codes(condition) \cup {PPME_ASYNCEVENT_E}]

(* the wrapper of add without the insert of the async-event code *)
MakeWrapper_no_async(rule, filter, condition) ==
    IF rule.source = syscall_source
    THEN [rule |-> rule, filter |-> filter,
          sc_codes |-> ppm_sc_codes(condition),
          event_codes |-> ppm_event_codes(condition)]
    ELSE [rule |-> rule, filter |-> filter,
          sc_codes |-> {},
          event_codes |-> {PPME_PLUGINEVENT_E}]

(* the try block of add up to the insert: the wrapper it builds *)
MakeWrapper(rule, filter, condition) ==
    LET derived ==
            IF rule.source = syscall_source
            THEN [sc_codes |-> ppm_sc_codes(condition),
                  event_codes |-> ppm_event_codes(condition)]
            ELSE [sc_codes |-> {},
                  event_codes |-> {PPME_PLUGINEVENT_E}]
    IN  [rule |-> rule,
         filter |-> filter,
         sc_codes |-> derived.sc_codes,
         event_codes |-> derived.event_codes \cup {PPME_ASYNCEVENT_E}]

(* add leaves the try block by the catch clause *)
AddThrows(rule, condition) ==
    rule.source = syscall_source /\ AnalysisThrows(condition)

(* growth by a fresh vector of ruleset_id + 1 empty rulesets *)
GrowRulesets_fresh(rulesets, ruleset_id) ==
    IF Len(rulesets) < ruleset_id + 1
    THEN [i \in 1..(ruleset_id + 1) |-> EmptyRuleset]
    ELSE rulesets

(* the while loop that opens enable_disable, enable_disable_tags and       *)
(* enabled_count                                                           *)
RECURSIVE GrowRulesets(_, _)
GrowRulesets(rulesets, ruleset_id) ==
    IF Len(rulesets) < ruleset_id + 1
    THEN GrowRulesets(Append(rulesets, EmptyRuleset), ruleset_id)
    ELSE rulesets

(* add_filter / remove_filter of each wrapper of a list, in order *)
RECURSIVE ApplyFilters(_, _, _, _)
ApplyFilters(rs, list, enabled, h) ==
    IF list = <<>> THEN rs
    ELSE ApplyFilters(
            IF enabled THEN add_filter(rs, Head(list), h)
                       ELSE remove_filter(rs, Head(list), h),
            Tail(list), enabled, h)

enable_disable(rulesets, filters, h, pattern, match, enabled, ruleset_id) ==
    LET grown == GrowRulesets(rulesets, ruleset_id)
        Matches(wrap) == PatternMatches(match, pattern, h[wrap].rule.name)
        selected == SelectSeq(SetToSeq(filters), Matches)
    IN  [grown EXCEPT ![ruleset_id + 1] = ApplyFilters(@, selected, enabled, h)]

(* the tags test as an inclusion instead of an intersection *)
TagsMatch_subset(tags, rule_tags) == tags \subseteq rule_tags

TagsMatch(tags, rule_tags) == (tags \cap rule_tags) # {}

enable_disable_tags(rulesets, filters, h, tags, enabled, ruleset_id) ==
    LET grown == GrowRulesets(rulesets, ruleset_id)
        Matches(wrap) == TagsMatch(tags, h[wrap].rule.tags)
        selected == SelectSeq(SetToSeq(filters), Matches)
    IN  [grown EXCEPT ![ruleset_id + 1] = ApplyFilters(@, selected, enabled, h)]

clear_rulesets(rulesets) == [i \in 1..Len(rulesets) |-> EmptyRuleset]

(* evttype_index_ruleset::run(evt, match, ruleset_id) *)
run_one(rulesets, h, evt, match, ruleset_id) ==
    IF Len(rulesets) < ruleset_id + 1
    THEN [ret |-> FALSE, match |-> match, evald |-> <<>>]
    ELSE rs_run_one(rulesets[ruleset_id + 1], evt, match, h)

(* evttype_index_ruleset::run(evt, matches, ruleset_id) *)
run_all(rulesets, h, evt, matches, ruleset_id) ==
    IF Len(rulesets) < ruleset_id + 1
    THEN [ret |-> FALSE, matches |-> matches, evald |-> <<>>]
    ELSE rs_run_all(rulesets[ruleset_id + 1], evt, matches, h)

(* the loop of ruleset_filters::sc_codes: res.insert of every member's codes *)
RECURSIVE InsertScCodes(_, _, _)
InsertScCodes(wraps, h, res) ==
    IF wraps = <<>> THEN res
    ELSE InsertScCodes(Tail(wraps), h, res \cup h[Head(wraps)].sc_codes)

(* ruleset_filters::sc_codes() *)
rs_sc_codes(rs, h) == InsertScCodes(SetToSeq(rs.m_filters), h, {})

(* the loop of ruleset_filters::event_codes *)
RECURSIVE InsertEventCodes(_, _, _)
InsertEventCodes(wraps, h, res) ==
    IF wraps = <<>> THEN res
    ELSE InsertEventCodes(Tail(wraps), h, res \cup h[Head(wraps)].event_codes)

(* event_codes that returns inside the first iteration of its loop *)
rs_event_codes_first(rs, h) ==
    IF rs.m_filters = {} THEN {}
    ELSE h[Head(SetToSeq(rs.m_filters))].event_codes

(* ruleset_filters::event_codes() *)
rs_event_codes(rs, h) == InsertEventCodes(SetToSeq(rs.m_filters), h, {})

(* enabled_sc_codes(ruleset) *)
enabled_sc_codes(rulesets, h, ruleset) ==
    IF Len(rulesets) < ruleset + 1 THEN {}
    ELSE rs_sc_codes(rulesets[ruleset + 1], h)

(* enabled_event_codes(ruleset) *)
enabled_event_codes(rulesets, h, ruleset) ==
    IF Len(rulesets) < ruleset + 1 THEN {}
    ELSE rs_event_codes(rulesets[ruleset + 1], h)

(* enabled_evttypes(evttypes, ruleset_id): the set it leaves in evttypes, *)
(* every code cast to uint16_t                                            *)
enabled_evttypes(evttypes, rulesets, h, ruleset_id) ==
    {e % 65536 : e \in enabled_event_codes(rulesets, h, ruleset_id)}

-----------------------------------------------------------------------------
(* State machine.  op is the last call, with its arguments and what it     *)
(* returned; pre is the state the call started in.                         *)

Snapshot == [heap |-> heap, m_filters |-> m_filters, m_rulesets |-> m_rulesets]

NoOp == [name |-> "init"]

FreeHeap(handles) == [w \in handles |-> NoWrap]

(* the registry after construction, with room for the given handles *)
InitWith(handles) ==
    /\ heap = FreeHeap(handles)
    /\ m_filters = {}
    /\ m_rulesets = <<>>
    /\ op = NoOp
    /\ pre = [heap |-> FreeHeap(handles), m_filters |-> {}, m_rulesets |-> <<>>]

Init == InitWith(Handles)

(* add that also enables the new wrapper in ruleset 0 *)
Add_enables(wrap, rule, filter, condition) ==
    /\ heap[wrap] = NoWrap
    /\ pre' = Snapshot
    /\ IF AddThrows(rule, condition)
       THEN /\ UNCHANGED <<heap, m_filters, m_rulesets>>
            /\ op' = [name |-> "add", rule |-> rule, filter |-> filter,
                      condition |-> condition, wrap |-> wrap,
                      ret |-> "falco_exception"]
       ELSE /\ heap' = [heap EXCEPT ![wrap] = MakeWrapper(rule, filter, condition)]
            /\ m_filters' = m_filters \cup {wrap}
            /\ m_rulesets' = IF m_rulesets = <<>> THEN m_rulesets
                             ELSE [m_rulesets EXCEPT ![1] = add_filter(@, wrap, heap')]
            /\ op' = [name |-> "add", rule |-> rule, filter |-> filter,
                      condition |-> condition, wrap |-> wrap,
                      ret |-> "ok"]

(* add into a set that compares wrappers by rule name and predicate *)
Add_by_name(wrap, rule, filter, condition) ==
    /\ heap[wrap] = NoWrap
    /\ pre' = Snapshot
    /\ UNCHANGED m_rulesets
    /\ IF AddThrows(rule, condition)
       THEN /\ UNCHANGED <<heap, m_filters>>
            /\ op' = [name |-> "add", rule |-> rule, filter |-> filter,
                      condition |-> condition, wrap |-> wrap,
                      ret |-> "falco_exception"]
       ELSE /\ IF \E w \in m_filters :
                     heap[w].rule.name = rule.name /\ heap[w].filter = filter
               THEN UNCHANGED <<heap, m_filters>>
               ELSE /\ heap' = [heap EXCEPT
                                  ![wrap] = MakeWrapper(rule, filter, condition)]
                    /\ m_filters' = m_filters \cup {wrap}
            /\ op' = [name |-> "add", rule |-> rule, filter |-> filter,
                      condition |-> condition, wrap |-> wrap,
                      ret |-> "ok"]

(* add that inserts the wrapper before it derives the codes *)
Add_insert_first(wrap, rule, filter, condition) ==
    /\ heap[wrap] = NoWrap
    /\ pre' = Snapshot
    /\ heap' = [heap EXCEPT ![wrap] =
                    IF AddThrows(rule, condition)
                    THEN [rule |-> rule, filter |-> filter, sc_codes |-> {},
                          event_codes |-> {}]
                    ELSE MakeWrapper(rule, filter, condition)]
    /\ m_filters' = m_filters \cup {wrap}
    /\ UNCHANGED m_rulesets
    /\ op' = [name |-> "add", rule |-> rule, filter |-> filter,
              condition |-> condition, wrap |-> wrap,
              ret |-> IF AddThrows(rule, condition)
                      THEN "falco_exception" ELSE "ok"]

(* add(rule, filter, condition); wrap is the address make_shared returns *)
Add(wrap, rule, filter, condition) ==
    /\ heap[wrap] = NoWrap
    /\ pre' = Snapshot
    /\ IF AddThrows(rule, condition)
       THEN /\ UNCHANGED <<heap, m_filters, m_rulesets>>
            /\ op' = [name |-> "add", rule |-> rule, filter |-> filter,
                      condition |-> condition, wrap |-> wrap,
                      ret |-> "falco_exception"]
       ELSE /\ heap' = [heap EXCEPT ![wrap] = MakeWrapper(rule, filter, condition)]
            /\ m_filters' = m_filters \cup {wrap}
            /\ UNCHANGED m_rulesets
            /\ op' = [name |-> "add", rule |-> rule, filter |-> filter,
                      condition |-> condition, wrap |-> wrap,
                      ret |-> "ok"]

(* clear without m_filters.clear() *)
Clear_keeps_entries ==
    /\ pre' = Snapshot
    /\ m_rulesets' = clear_rulesets(m_rulesets)
    /\ UNCHANGED <<heap, m_filters>>
    /\ op' = [name |-> "clear"]

(* clear(): every wrapper loses its last owner *)
Clear ==
    /\ pre' = Snapshot
    /\ m_rulesets' = clear_rulesets(m_rulesets)
    /\ m_filters' = {}
    /\ heap' = FreeHeap(DOMAIN heap)
    /\ op' = [name |-> "clear"]

(* enable(pattern, match, ruleset_id) / disable(pattern, match, ruleset_id) *)
EnableDisable(pattern, match, enabled, ruleset_id) ==
    /\ pre' = Snapshot
    /\ m_rulesets' = enable_disable(m_rulesets, m_filters, heap,
                                    pattern, match, enabled, ruleset_id)
    /\ UNCHANGED <<heap, m_filters>>
    /\ op' = [name |-> "enable_disable", pattern |-> pattern, match |-> match,
              enabled |-> enabled, ruleset_id |-> ruleset_id]

(* enable_tags(tags, ruleset_id) / disable_tags(tags, ruleset_id) *)
EnableDisableTags(tags, enabled, ruleset_id) ==
    /\ pre' = Snapshot
    /\ m_rulesets' = enable_disable_tags(m_rulesets, m_filters, heap,
                                         tags, enabled, ruleset_id)
    /\ UNCHANGED <<heap, m_filters>>
    /\ op' = [name |-> "enable_disable_tags", tags |-> tags,
              enabled |-> enabled, ruleset_id |-> ruleset_id]

(* enabled_count(ruleset_id) *)
EnabledCount(ruleset_id) ==
    /\ pre' = Snapshot
    /\ m_rulesets' = GrowRulesets(m_rulesets, ruleset_id)
    /\ UNCHANGED <<heap, m_filters>>
    /\ op' = [name |-> "enabled_count", ruleset_id |-> ruleset_id,
              ret |-> num_filters(m_rulesets'[ruleset_id + 1])]

(* run that grows m_rulesets as enabled_count does *)
RunOne_grows(evt, match, ruleset_id) ==
    /\ pre' = Snapshot
    /\ m_rulesets' = GrowRulesets(m_rulesets, ruleset_id)
    /\ UNCHANGED <<heap, m_filters>>
    /\ LET res == run_one(m_rulesets', heap, evt, match, ruleset_id)
       IN  op' = [name |-> "run_one", evt |-> evt, match_in |-> match,
                  ruleset_id |-> ruleset_id, ret |-> res.ret,
                  match |-> res.match, evald |-> res.evald]

(* run(evt, match, ruleset_id); match is the caller's output slot *)
RunOne(evt, match, ruleset_id) ==
    /\ pre' = Snapshot
    /\ UNCHANGED <<heap, m_filters, m_rulesets>>
    /\ LET res == run_one(m_rulesets, heap, evt, match, ruleset_id)
       IN  op' = [name |-> "run_one", evt |-> evt, match_in |-> match,
                  ruleset_id |-> ruleset_id, ret |-> res.ret,
                  match |-> res.match, evald |-> res.evald]

(* run(evt, matches, ruleset_id); matches is the caller's vector *)
RunAll(evt, matches, ruleset_id) ==
    /\ pre' = Snapshot
    /\ UNCHANGED <<heap, m_filters, m_rulesets>>
    /\ LET res == run_all(m_rulesets, heap, evt, matches, ruleset_id)
       IN  op' = [name |-> "run_all", evt |-> evt, matches_in |-> matches,
                  ruleset_id |-> ruleset_id, ret |-> res.ret,
                  matches |-> res.matches, evald |-> res.evald]

-----------------------------------------------------------------------------
(* Inputs of the registry's operations *)

RuleA == [name |-> <<"a">>, tags |-> {"net", "fs"}, source |-> syscall_source]

RuleAB == [name |-> <<"a", "b">>, tags |-> {"fs"}, source |-> syscall_source]

RuleABC == [name |-> <<"a", "b", "c">>, tags |-> {}, source |-> plugin_source]

CondOpen == [event_codes |-> {0}, sc_codes |-> {1}, ok |-> TRUE]

CondOpenClose == [event_codes |-> {0, 1}, sc_codes |-> {1, 2}, ok |-> TRUE]

CondMalformed == [event_codes |-> {}, sc_codes |-> {}, ok |-> FALSE]

(* The rules a loader hands to add: <<rule, filter, condition>> *)
Loads ==
    {<<RuleA, {0, 1}, CondOpen>>,
     <<RuleAB, {1}, CondOpenClose>>,
     <<RuleAB, {1}, CondMalformed>>,
     <<RuleABC, {1}, CondMalformed>>,
     <<RuleABC, {1}, CondOpen>>}

(* <<pattern, match>> *)
Selectors ==
    {<<<<>>, "exact">>,
     <<<<"a", "b">>, "exact">>,
     <<<<"a", "b">>, "substring">>,
     <<<<"a", "*">>, "wildcard">>}

TagSets == {{}, {"fs", "mem"}, {"gui"}}

(* enabled_sc_codes(ruleset) *)
EnabledScCodes(ruleset) ==
    /\ pre' = Snapshot
    /\ UNCHANGED <<heap, m_filters, m_rulesets>>
    /\ op' = [name |-> "enabled_sc_codes", ruleset_id |-> ruleset,
              ret |-> enabled_sc_codes(m_rulesets, heap, ruleset)]

(* enabled_event_codes that grows m_rulesets as enabled_count does *)
EnabledEventCodes_grows(ruleset) ==
    /\ pre' = Snapshot
    /\ m_rulesets' = GrowRulesets(m_rulesets, ruleset)
    /\ UNCHANGED <<heap, m_filters>>
    /\ op' = [name |-> "enabled_event_codes", ruleset_id |-> ruleset,
              ret |-> enabled_event_codes(m_rulesets', heap, ruleset)]

(* enabled_event_codes(ruleset) *)
EnabledEventCodes(ruleset) ==
    /\ pre' = Snapshot
    /\ UNCHANGED <<heap, m_filters, m_rulesets>>
    /\ op' = [name |-> "enabled_event_codes", ruleset_id |-> ruleset,
              ret |-> enabled_event_codes(m_rulesets, heap, ruleset)]

(* enabled_evttypes(evttypes, ruleset_id); evttypes is the caller's set *)
EnabledEvttypes(evttypes, ruleset_id) ==
    /\ pre' = Snapshot
    /\ UNCHANGED <<heap, m_filters, m_rulesets>>
    /\ op' = [name |-> "enabled_evttypes", ruleset_id |-> ruleset_id,
              evttypes_in |-> evttypes,
              ret |-> enabled_evttypes(evttypes, m_rulesets, heap, ruleset_id)]

(* a set the caller of enabled_evttypes left filled *)
StaleEvttypes == {0}

Next ==
    \/ \E wrap \in Handles, load \in Loads :
          Add(wrap, load[1], load[2], load[3])
    \/ Clear
    \/ \E sel \in Selectors, enabled \in BOOLEAN, ruleset_id \in RulesetIds :
          EnableDisable(sel[1], sel[2], enabled, ruleset_id)
    \/ \E tags \in TagSets, enabled \in BOOLEAN, ruleset_id \in RulesetIds :
          EnableDisableTags(tags, enabled, ruleset_id)
    \/ \E ruleset_id \in RulesetIds : EnabledCount(ruleset_id)
    \/ \E evt \in Events, ruleset_id \in RulesetIds :
          RunOne(evt, NoRule, ruleset_id)
    \/ \E evt \in Events, ruleset_id \in RulesetIds :
          RunAll(evt, <<>>, ruleset_id)
    \/ \E ruleset_id \in RulesetIds : EnabledScCodes(ruleset_id)
    \/ \E ruleset_id \in RulesetIds : EnabledEventCodes(ruleset_id)
    \/ \E ruleset_id \in RulesetIds : EnabledEvttypes(StaleEvttypes, ruleset_id)

Spec == Init /\ [][Next]_vars

-----------------------------------------------------------------------------
(* One ruleset_filters object driven through its own interface (add_filter, *)
(* remove_filter, run), with wrappers whose event_codes its caller chose,   *)
(* the empty set included: the object is m_rulesets[0].                     *)

InitIndex ==
    /\ heap = FreeHeap(1..MaxWrappers)
    /\ m_filters = {}
    /\ m_rulesets = <<EmptyRuleset>>
    /\ op = NoOp
    /\ pre = [heap |-> FreeHeap(1..MaxWrappers), m_filters |-> {},
              m_rulesets |-> <<EmptyRuleset>>]

(* a filter_wrapper made and filled in by the caller *)
NewWrapper(wrap, rule, filter, event_codes) ==
    /\ heap[wrap] = NoWrap
    /\ pre' = Snapshot
    /\ heap' = [heap EXCEPT ![wrap] = [rule |-> rule, filter |-> filter,
                                       sc_codes |-> {},
                                       event_codes |-> event_codes]]
    /\ UNCHANGED <<m_filters, m_rulesets>>
    /\ op' = [name |-> "new_wrapper", wrap |-> wrap]

(* m_rulesets[ruleset_id]->add_filter(wrap) *)
IndexAddFilter(ruleset_id, wrap) ==
    /\ heap[wrap] # NoWrap
    /\ ruleset_id < Len(m_rulesets)
    /\ pre' = Snapshot
    /\ m_rulesets' = [m_rulesets EXCEPT ![ruleset_id + 1] = add_filter(@, wrap, heap)]
    /\ UNCHANGED <<heap, m_filters>>
    /\ op' = [name |-> "add_filter", wrap |-> wrap, ruleset_id |-> ruleset_id]

(* m_rulesets[ruleset_id]->remove_filter(wrap) *)
IndexRemoveFilter(ruleset_id, wrap) ==
    /\ heap[wrap] # NoWrap
    /\ ruleset_id < Len(m_rulesets)
    /\ pre' = Snapshot
    /\ m_rulesets' = [m_rulesets EXCEPT ![ruleset_id + 1] = remove_filter(@, wrap, heap)]
    /\ UNCHANGED <<heap, m_filters>>
    /\ op' = [name |-> "remove_filter", wrap |-> wrap, ruleset_id |-> ruleset_id]

RuleB == [name |-> <<"b">>, tags |-> {"gui"}, source |-> syscall_source]

(* <<rule, filter, event_codes>> *)
IndexWrappers ==
    {<<RuleA, {1}, {0}>>,
     <<RuleAB, {0, 1}, {0, 1}>>,
     <<RuleABC, {1}, {}>>,
     <<RuleB, {0, 1}, {}>>}

(* events of the types the wrappers name and of the first type past them *)
IndexEvents ==
    LET named == UNION {w[3] : w \in IndexWrappers}
    IN  {evt \in Events : \E t \in named : evt.type <= t + 1}

MatchSlots == {NoRule, RuleB}

MatchVectors == {<<>>, <<RuleABC>>}

NextIndex ==
    \/ \E wrap \in 1..MaxWrappers, w \in IndexWrappers :
          /\ \A other \in 1..MaxWrappers :
                heap[other] # NoWrap => (other < wrap /\ heap[other].rule # w[1])
          /\ NewWrapper(wrap, w[1], w[2], w[3])
    \/ \E wrap \in 1..MaxWrappers : IndexAddFilter(0, wrap)
    \/ \E wrap \in 1..MaxWrappers : IndexRemoveFilter(0, wrap)
    \/ \E evt \in IndexEvents, match \in MatchSlots : RunOne(evt, match, 0)
    \/ \E evt \in IndexEvents, matches \in MatchVectors,
          ruleset_id \in {0, Len(m_rulesets)} :
          RunAll(evt, matches, ruleset_id)

SpecIndex == InitIndex /\ [][NextIndex]_vars

-----------------------------------------------------------------------------
(* The registry loaded with rules of distinct names, then enabled and      *)
(* disabled by pattern.                                                    *)

NamedLoads ==
    {<<RuleA, {0, 1}, CondOpen>>,
     <<RuleAB, {1}, CondOpenClose>>,
     <<RuleABC, {1}, CondOpen>>}

NamedHandles == 1..Cardinality(NamedLoads)

NamePatterns ==
    {<<>>, <<"a">>, <<"b">>, <<"a", "b">>, <<"b", "c">>, <<"a", "c">>,
     <<"a", "b", "c">>, <<"*">>, <<"a", "*">>, <<"*", "b">>,
     <<"*", "b", "*">>, <<"a", "*", "c">>}

MatchTypes == {"exact", "substring", "wildcard"}

InitSelect == InitWith(NamedHandles)

NextSelect ==
    \/ \E wrap \in NamedHandles, load \in NamedLoads :
          /\ \A w \in m_filters : heap[w].rule.name # load[1].name
          /\ Add(wrap, load[1], load[2], load[3])
    \/ \E pattern \in NamePatterns, match \in MatchTypes, enabled \in BOOLEAN :
          EnableDisable(pattern, match, enabled, 0)
    \/ EnabledCount(0)

SpecSelect == InitSelect /\ [][NextSelect]_vars

-----------------------------------------------------------------------------
(* Concurrent calls of run on a configured registry.  Every thread has its *)
(* own frame: the arguments of its call, the loop it is in, its iterator,  *)
(* its output and the wrappers whose filter it has run so far.  One step   *)
(* of a thread runs one filter or leaves one loop.  No thread runs a       *)
(* mutating operation.  op holds the frames, pre the configured registry.  *)

MaxThreads == 2

Threads == 1..MaxThreads

IdleFrame ==
    [pc |-> "idle", form |-> "one", evt |-> [type |-> 0, pay |-> 0],
     ruleset_id |-> 0, it |-> 1, match |-> NoRule, matches |-> <<>>,
     match_found |-> FALSE, ret |-> FALSE, evald |-> <<>>,
     overlapped |-> FALSE]

(* the list the loop of a frame iterates: the bucket of the event type    *)
(* (none when the type is out of range), then m_filter_all_event_types    *)
LoopList(f) ==
    LET rs == m_rulesets[f.ruleset_id + 1]
        by == rs.m_filter_by_event_type
    IN  IF f.pc = "bucket"
        THEN (IF f.evt.type < Len(by) THEN by[f.evt.type + 1] ELSE <<>>)
        ELSE rs.m_filter_all_event_types

InLoop(f) == f.pc \in {"bucket", "catch_all"}

(* entry of run(evt, match, ruleset_id) or run(evt, matches, ruleset_id) *)
Call(t, form, evt, ruleset_id) ==
    /\ op.calls[t].pc = "idle"
    /\ op' = [op EXCEPT !.calls[t] =
                [IdleFrame EXCEPT
                   !.form = form, !.evt = evt, !.ruleset_id = ruleset_id,
                   !.pc = IF Len(m_rulesets) < ruleset_id + 1
                          THEN "done" ELSE "bucket"]]
    /\ UNCHANGED <<heap, m_filters, m_rulesets, pre>>

(* one iteration of a loop with an iterator that all running frames share *)
EvalFilter_shared_iterator(t) ==
    LET f == op.calls[t]
    IN  /\ InLoop(f)
        /\ f.it <= Len(LoopList(f))
        /\ LET wrap == LoopList(f)[f.it]
               hit == FilterRun(heap[wrap].filter, f.evt)
               g == [f EXCEPT !.evald = Append(@, wrap)]
               mine == IF hit /\ f.form = "one"
                       THEN [g EXCEPT !.match = heap[wrap].rule,
                                      !.ret = TRUE, !.pc = "done"]
                       ELSE IF hit
                            THEN [g EXCEPT !.matches = Append(@, heap[wrap].rule),
                                           !.match_found = TRUE, !.it = @ + 1]
                            ELSE [g EXCEPT !.it = @ + 1]
           IN  op' = [op EXCEPT !.calls =
                        [u \in Threads |->
                           IF u = t THEN mine
                           ELSE IF InLoop(op.calls[u])
                                THEN [op.calls[u] EXCEPT !.it = f.it + 1]
                                ELSE op.calls[u]]]
        /\ UNCHANGED <<heap, m_filters, m_rulesets, pre>>

(* one iteration of a loop of run: wrap->filter->run(evt) and what follows *)
EvalFilter(t) ==
    LET f == op.calls[t]
    IN  /\ InLoop(f)
        /\ f.it <= Len(LoopList(f))
        /\ LET wrap == LoopList(f)[f.it]
               hit == FilterRun(heap[wrap].filter, f.evt)
               g == [f EXCEPT
                       !.evald = Append(@, wrap),
                       !.overlapped = @ \/ \E u \in Threads \ {t} :
                                              /\ InLoop(op.calls[u])
                                              /\ op.calls[u].evald # <<>>]
           IN  op' = [op EXCEPT !.calls[t] =
                        IF hit /\ f.form = "one"
                        THEN [g EXCEPT !.match = heap[wrap].rule,
                                       !.ret = TRUE, !.pc = "done"]
                        ELSE IF hit
                             THEN [g EXCEPT !.matches = Append(@, heap[wrap].rule),
                                            !.match_found = TRUE, !.it = @ + 1]
                             ELSE [g EXCEPT !.it = @ + 1]]
        /\ UNCHANGED <<heap, m_filters, m_rulesets, pre>>

(* the end of a loop without the return of the all-matches form after the *)
(* bucket                                                                 *)
LeaveLoop_no_early_return(t) ==
    LET f == op.calls[t]
    IN  /\ InLoop(f)
        /\ f.it > Len(LoopList(f))
        /\ op' = [op EXCEPT !.calls[t] =
                    IF f.pc = "bucket"
                    THEN [f EXCEPT !.pc = "catch_all", !.it = 1]
                    ELSE [f EXCEPT !.pc = "done", !.ret = f.match_found]]
        /\ UNCHANGED <<heap, m_filters, m_rulesets, pre>>

(* the end of a loop: after the bucket, return true of the all-matches    *)
(* form when it matched, else the loop over m_filter_all_event_types;     *)
(* after that loop, return false or match_found                           *)
LeaveLoop(t) ==
    LET f == op.calls[t]
    IN  /\ InLoop(f)
        /\ f.it > Len(LoopList(f))
        /\ op' = [op EXCEPT !.calls[t] =
                    IF f.pc = "bucket"
                    THEN (IF f.form = "all" /\ f.match_found
                          THEN [f EXCEPT !.pc = "done", !.ret = TRUE]
                          ELSE [f EXCEPT !.pc = "catch_all", !.it = 1])
                    ELSE [f EXCEPT !.pc = "done", !.ret = f.match_found]]
        /\ UNCHANGED <<heap, m_filters, m_rulesets, pre>>

(* the caller takes the result; the thread can call again *)
Return(t) ==
    /\ op.calls[t].pc = "done"
    /\ op' = [op EXCEPT !.calls[t] = IdleFrame]
    /\ UNCHANGED <<heap, m_filters, m_rulesets, pre>>

(* the wrappers of the configured registry, by handle *)
RunWrappers ==
    <<[rule |-> RuleA, filter |-> {1}, sc_codes |-> {}, event_codes |-> {0}],
      [rule |-> RuleAB, filter |-> {0, 1}, sc_codes |-> {}, event_codes |-> {0, 1}],
      [rule |-> RuleB, filter |-> {0, 1}, sc_codes |-> {}, event_codes |-> {}],
      [rule |-> RuleABC, filter |-> {1}, sc_codes |-> {}, event_codes |-> {}]>>

RunHeap == [w \in 1..Len(RunWrappers) |-> RunWrappers[w]]

(* the orders in which wrappers were given to add_filter *)
EnableOrders ==
    {order \in UNION {[1..n -> DOMAIN RunHeap] : n \in 0..MaxWrappers} :
        \A i \in DOMAIN order, j \in DOMAIN order : i # j => order[i] # order[j]}

(* a ruleset after add_filter of the wrappers of an order *)
RECURSIVE Configured(_, _, _)
Configured(rs, order, h) ==
    IF order = <<>> THEN rs
    ELSE Configured(add_filter(rs, Head(order), h), Tail(order), h)

InitRuns ==
    /\ heap = RunHeap
    /\ m_filters = DOMAIN RunHeap
    /\ m_rulesets \in {<<Configured(EmptyRuleset, order, RunHeap)>> :
                          order \in EnableOrders}
    /\ op = [name |-> "threads", calls |-> [t \in Threads |-> IdleFrame]]
    /\ pre = [heap |-> heap, m_filters |-> m_filters, m_rulesets |-> m_rulesets]

NextRuns ==
    \/ \E t \in Threads, form \in {"one", "all"}, evt \in IndexEvents,
          ruleset_id \in RulesetIds :
          Call(t, form, evt, ruleset_id)
    \/ \E t \in Threads : EvalFilter(t)
    \/ \E t \in Threads : LeaveLoop(t)
    \/ \E t \in Threads : Return(t)

SpecRuns == InitRuns /\ [][NextRuns]_vars

-----------------------------------------------------------------------------
(* Properties.  They read the last call (op), the state it started in      *)
(* (pre) and the state it left.                                            *)

(* ruleset ruleset_id of a vector of rulesets; an absent id is empty *)
RulesetAt(rulesets, ruleset_id) ==
    IF ruleset_id < Len(rulesets) THEN rulesets[ruleset_id + 1] ELSE EmptyRuleset

(* the bucket of event type t of a ruleset; a type out of range has none *)
BucketOf(rs, t) ==
    IF t < Len(rs.m_filter_by_event_type)
    THEN rs.m_filter_by_event_type[t + 1]
    ELSE <<>>

(* positions of a list whose predicate is true on the event of op *)
TruePositions(list) ==
    {i \in 1..Len(list) : op.evt.pay \in pre.heap[list[i]].filter}

(* rules of the entries of a list whose predicate is true, in list order *)
TrueRules(list) ==
    LET IsTrue(w) == op.evt.pay \in pre.heap[w].filter
        kept == SelectSeq(list, IsTrue)
    IN  [i \in 1..Len(kept) |-> pre.heap[kept[i]].rule]

(* C1: single-match run on a ruleset returns matched=true with the rule of *)
(* the first entry, in bucket order, of the event type's bucket whose      *)
(* predicate is true; if the type is out of range or no entry of the       *)
(* bucket is true, the rule of the first true catch_all entry; otherwise   *)
(* matched=false and the output slot is left as it was.                    *)
C1_SingleMatch ==
    (op.name = "run_one" /\ op.ruleset_id < Len(pre.m_rulesets)) =>
        LET rs == pre.m_rulesets[op.ruleset_id + 1]
            bucket == BucketOf(rs, op.evt.type)
            catch_all == rs.m_filter_all_event_types
        IN  IF TruePositions(bucket) # {}
            THEN /\ op.ret = TRUE
                 /\ op.match = pre.heap[bucket[SetMin(TruePositions(bucket))]].rule
            ELSE IF TruePositions(catch_all) # {}
                 THEN /\ op.ret = TRUE
                      /\ op.match =
                            pre.heap[catch_all[SetMin(TruePositions(catch_all))]].rule
                 ELSE /\ op.ret = FALSE
                      /\ op.match = op.match_in

(* a single-match run whose bucket holds only false entries and whose     *)
(* second catch_all entry is the first true one                            *)
C1_Witness ==
    /\ op.name = "run_one"
    /\ op.ruleset_id < Len(pre.m_rulesets)
    /\ LET rs == pre.m_rulesets[op.ruleset_id + 1]
           bucket == BucketOf(rs, op.evt.type)
           catch_all == rs.m_filter_all_event_types
       IN  /\ bucket # <<>>
           /\ TruePositions(bucket) = {}
           /\ Len(catch_all) = 2
           /\ TruePositions(catch_all) = {2}
           /\ op.ret = TRUE
           /\ op.match = pre.heap[catch_all[2]].rule
           /\ op.match # op.match_in

(* C2: all-matches run appends exactly the rules of all true entries of    *)
(* the event type's bucket, in bucket order, and no catch_all rule, if at  *)
(* least one bucket entry is true; only when none is true does it append   *)
(* the rules of all true catch_all entries, in catch_all order.            *)
C2_AllMatches ==
    (op.name = "run_all" /\ op.ruleset_id < Len(pre.m_rulesets)) =>
        LET rs == pre.m_rulesets[op.ruleset_id + 1]
            bucket == BucketOf(rs, op.evt.type)
            catch_all == rs.m_filter_all_event_types
            appended == SubSeq(op.matches, Len(op.matches_in) + 1, Len(op.matches))
        IN  IF TruePositions(bucket) # {}
            THEN appended = TrueRules(bucket)
            ELSE appended = TrueRules(catch_all)

(* two true bucket entries and a true catch_all entry: two rules appended *)
C2_Witness ==
    /\ op.name = "run_all"
    /\ op.ruleset_id < Len(pre.m_rulesets)
    /\ LET rs == pre.m_rulesets[op.ruleset_id + 1]
           bucket == BucketOf(rs, op.evt.type)
           catch_all == rs.m_filter_all_event_types
       IN  /\ Cardinality(TruePositions(bucket)) = 2
           /\ TruePositions(catch_all) # {}
           /\ Len(op.matches) = Len(op.matches_in) + 2
           /\ op.matches[Len(op.matches)] = pre.heap[bucket[2]].rule

(* C3: all-matches run returns true iff the call appended at least one     *)
(* rule; the rules the output sequence held before the call stay in place, *)
(* and a false return leaves the sequence as it was.                       *)
C3_AllMatchesReturn ==
    op.name = "run_all" =>
        /\ Len(op.matches) >= Len(op.matches_in)
        /\ SubSeq(op.matches, 1, Len(op.matches_in)) = op.matches_in
        /\ op.ret = (Len(op.matches) > Len(op.matches_in))
        /\ (op.ret = FALSE => op.matches = op.matches_in)

(* a true return on a sequence that already held a rule, matched by        *)
(* catch_all entries only                                                  *)
C3_Witness ==
    /\ op.name = "run_all"
    /\ op.ruleset_id < Len(pre.m_rulesets)
    /\ op.matches_in # <<>>
    /\ op.ret = TRUE
    /\ TruePositions(BucketOf(pre.m_rulesets[op.ruleset_id + 1], op.evt.type)) = {}
    /\ Len(op.matches) = Len(op.matches_in) + 2
    /\ op.matches[1] = op.matches_in[1]

(* p occurs somewhere in s *)
IsSubstring(p, s) ==
    \E i \in 1..(Len(s) + 1), j \in 0..Len(s) : SubSeq(s, i, j) = p

RECURSIVE SumTo(_, _)
SumTo(f, n) == IF n = 0 THEN 0 ELSE f[n] + SumTo(f, n - 1)

(* s is cut into one piece per pattern item: any piece for "*", the item   *)
(* itself for a character                                                  *)
IsGlobMatch(p, s) ==
    \E piece \in [1..Len(p) -> 0..Len(s)] :
        /\ SumTo(piece, Len(p)) = Len(s)
        /\ \A i \in 1..Len(p) :
              p[i] # "*" => (piece[i] = 1 /\ s[SumTo(piece, i - 1) + 1] = p[i])

(* what the three match modes are to select *)
NameSelected(match, pattern, name) ==
    CASE match = "exact" -> pattern = <<>> \/ name = pattern
      [] match = "substring" -> pattern = <<>> \/ IsSubstring(pattern, name)
      [] match = "wildcard" -> IsGlobMatch(pattern, name)

NamesOf(entries) == {heap[w].rule.name : w \in entries}

(* C4: in enable/disable, exact mode selects an entry iff the pattern is   *)
(* empty or equals the rule name, substring mode iff the pattern is empty  *)
(* or occurs in the name, wildcard mode iff the name matches the pattern   *)
(* as a glob.  With rules a, ab, abc: exact "ab" selects ab only,          *)
(* substring "ab" selects ab and abc, wildcard "a*" selects all three, and *)
(* the empty pattern selects all three under exact and substring.          *)
C4_PatternSelection ==
    op.name = "enable_disable" =>
        LET old == RulesetAt(pre.m_rulesets, op.ruleset_id).m_filters
            new == m_rulesets[op.ruleset_id + 1].m_filters
            Selected(w) == NameSelected(op.match, op.pattern, heap[w].rule.name)
        IN  /\ \A w \in m_filters :
                  (w \in new) <=> IF op.enabled
                                  THEN w \in old \/ Selected(w)
                                  ELSE w \in old /\ ~Selected(w)
            /\ (/\ op.enabled
                /\ old = {}
                /\ NamesOf(m_filters) = {<<"a">>, <<"a", "b">>, <<"a", "b", "c">>})
               =>
                /\ (op.match = "exact" /\ op.pattern = <<"a", "b">>)
                      => NamesOf(new) = {<<"a", "b">>}
                /\ (op.match = "substring" /\ op.pattern = <<"a", "b">>)
                      => NamesOf(new) = {<<"a", "b">>, <<"a", "b", "c">>}
                /\ (op.match = "wildcard" /\ op.pattern = <<"a", "*">>)
                      => NamesOf(new) = NamesOf(m_filters)
                /\ (op.match \in {"exact", "substring"} /\ op.pattern = <<>>)
                      => NamesOf(new) = NamesOf(m_filters)

(* rules a, ab and abc registered, none enabled: enable exact "ab" *)
C4_Witness ==
    /\ op.name = "enable_disable"
    /\ op.enabled
    /\ op.match = "exact"
    /\ op.pattern = <<"a", "b">>
    /\ NamesOf(m_filters) = {<<"a">>, <<"a", "b">>, <<"a", "b", "c">>}
    /\ RulesetAt(pre.m_rulesets, op.ruleset_id).m_filters = {}
    /\ NamesOf(m_rulesets[op.ruleset_id + 1].m_filters) = {<<"a", "b">>}

(* the event types that have a bucket in one of two rulesets *)
IndexedTypes(rs1, rs2) ==
    {t \in 0..(Len(rs1.m_filter_by_event_type) + Len(rs2.m_filter_by_event_type)) :
        t < Len(rs1.m_filter_by_event_type) \/ t < Len(rs2.m_filter_by_event_type)}

(* list `after` is list `before` after an enable or a disable of `sel`:    *)
(* an enable leaves every entry where it was and appends; a disable takes  *)
(* the selected entries out and leaves the others in their order           *)
ListKept(before, after, sel, enabled) ==
    LET Unselected(w) == w \notin sel
    IN  IF enabled
        THEN /\ Len(after) >= Len(before)
             /\ SubSeq(after, 1, Len(before)) = before
        ELSE after = SelectSeq(before, Unselected)

(* C5: enable by pattern on ruleset r makes members the previous members   *)
(* united with the registered entries the pattern selects, disable makes   *)
(* it the previous members minus the selected ones; entries not selected   *)
(* keep their membership and their place among the entries of every bucket *)
(* (an enable appends behind them, a disable closes the gaps before them), *)
(* and disabling entries that are not enabled changes nothing.             *)
C5_EnableDisableEffect ==
    op.name = "enable_disable" =>
        LET old == RulesetAt(pre.m_rulesets, op.ruleset_id)
            new == m_rulesets[op.ruleset_id + 1]
            sel == {w \in m_filters :
                       NameSelected(op.match, op.pattern, heap[w].rule.name)}
        IN  /\ new.m_filters = IF op.enabled THEN old.m_filters \cup sel
                                             ELSE old.m_filters \ sel
            /\ \A t \in IndexedTypes(old, new) :
                  ListKept(BucketOf(old, t), BucketOf(new, t), sel, op.enabled)
            /\ ListKept(old.m_filter_all_event_types,
                        new.m_filter_all_event_types, sel, op.enabled)
            /\ (~op.enabled /\ sel \cap old.m_filters = {}) => new = old

(* a disable that takes the first of two entries out of a bucket and       *)
(* leaves the second, which the pattern does not select                    *)
C5_Witness ==
    /\ op.name = "enable_disable"
    /\ ~op.enabled
    /\ LET old == RulesetAt(pre.m_rulesets, op.ruleset_id)
           new == m_rulesets[op.ruleset_id + 1]
       IN  \E t \in IndexedTypes(old, new) :
              /\ Len(BucketOf(old, t)) = 2
              /\ BucketOf(new, t) = <<BucketOf(old, t)[2]>>
              /\ new.m_filters = {BucketOf(old, t)[2]}
              /\ ~NameSelected(op.match, op.pattern,
                               heap[BucketOf(old, t)[2]].rule.name)

(* C6: enable_tags/disable_tags on ruleset r adds to / removes from r      *)
(* exactly the registered entries whose rule has a tag in common with the  *)
(* given tags; every other entry (all of them when the given set is empty, *)
(* and every entry whose rule has no tags) keeps its membership.           *)
C6_TagsEffect ==
    op.name = "enable_disable_tags" =>
        LET old == RulesetAt(pre.m_rulesets, op.ruleset_id).m_filters
            new == m_rulesets[op.ruleset_id + 1].m_filters
            Common(w) == \E tag \in op.tags : tag \in heap[w].rule.tags
        IN  /\ \A w \in m_filters :
                  IF Common(w)
                  THEN (w \in new) = op.enabled
                  ELSE (w \in new) = (w \in old)
            /\ new \subseteq m_filters
            /\ op.tags = {} => new = old
            /\ \A w \in m_filters :
                  heap[w].rule.tags = {} => ((w \in new) = (w \in old))

(* enable_tags({fs, mem}) with a rule tagged {net, fs} and a rule without  *)
(* tags registered, none enabled: the first is enabled, the second not     *)
C6_Witness ==
    /\ op.name = "enable_disable_tags"
    /\ op.enabled
    /\ op.tags = {"fs", "mem"}
    /\ RulesetAt(pre.m_rulesets, op.ruleset_id).m_filters = {}
    /\ \E w1 \in m_filters, w2 \in m_filters :
          /\ heap[w1].rule.tags = {"net", "fs"}
          /\ heap[w2].rule.tags = {}
          /\ m_rulesets[op.ruleset_id + 1].m_filters = {w1}

(* no ruleset id counts an enabled entry, and no run of either form on any *)
(* event and ruleset id matches                                            *)
Silent ==
    /\ \A ruleset_id \in RulesetIds :
          num_filters(RulesetAt(m_rulesets, ruleset_id)) = 0
    /\ \A ruleset_id \in RulesetIds, evt \in Events :
          /\ ~run_one(m_rulesets, heap, evt, NoRule, ruleset_id).ret
          /\ ~run_all(m_rulesets, heap, evt, <<>>, ruleset_id).ret

(* a step that enables on a registry that holds entries *)
EnablingStep ==
    /\ op'.name \in {"enable_disable", "enable_disable_tags"}
    /\ op'.enabled
    /\ m_filters # {}

(* C7: after clear(), all_entries is empty, enabled_count is 0 for every   *)
(* ruleset id, those that existed and those that never did, and run in     *)
(* either form matches no event on any ruleset id; this lasts until an     *)
(* enable that follows a later add.                                        *)
C7_ClearResets ==
    [][/\ op'.name = "clear" => (m_filters' = {} /\ Silent')
       /\ \/ UNCHANGED <<heap, m_rulesets>>
          \/ EnablingStep
          \/ (Silent => Silent')]_vars

(* a clear of a registry in which some event matched on some ruleset while *)
(* another ruleset id never existed                                        *)
C7_Witness ==
    /\ op.name = "clear"
    /\ Len(m_rulesets) <= MaxRulesetId
    /\ \E ruleset_id \in RulesetIds, evt \in Events :
          /\ run_one(pre.m_rulesets, pre.heap, evt, NoRule, ruleset_id).ret
          /\ run_all(pre.m_rulesets, pre.heap, evt, <<>>, ruleset_id).ret
          /\ ~run_one(m_rulesets, heap, evt, NoRule, ruleset_id).ret
          /\ ~run_all(m_rulesets, heap, evt, <<>>, ruleset_id).ret

(* the wrappers a ruleset holds, in members or in any of its lists *)
IndexedIn(rs) ==
    rs.m_filters
    \cup SeqToSet(rs.m_filter_all_event_types)
    \cup UNION {SeqToSet(rs.m_filter_by_event_type[i]) :
                    i \in 1..Len(rs.m_filter_by_event_type)}

(* C8: add registers the entry and touches no ruleset: members, buckets    *)
(* and catch_all of every ruleset id are as before, the new entry is in no *)
(* ruleset and no run returns anything else than before; an entry becomes  *)
(* a member of a ruleset only by an enable call on that ruleset that       *)
(* selects it.                                                             *)
C8_AddFrame ==
    [][/\ op'.name = "add" =>
            /\ m_rulesets' = m_rulesets
            /\ (op'.ret = "ok" =>
                    \A i \in 1..Len(m_rulesets') :
                        op'.wrap \notin IndexedIn(m_rulesets'[i]))
            /\ \A ruleset_id \in RulesetIds, evt \in Events :
                  /\ run_one(m_rulesets', heap', evt, NoRule, ruleset_id)
                        = run_one(m_rulesets, heap, evt, NoRule, ruleset_id)
                  /\ run_all(m_rulesets', heap', evt, <<>>, ruleset_id)
                        = run_all(m_rulesets, heap, evt, <<>>, ruleset_id)
       /\ \A ruleset_id \in RulesetIds, w \in DOMAIN heap :
            (/\ m_rulesets' # m_rulesets
             /\ w \notin RulesetAt(m_rulesets, ruleset_id).m_filters
             /\ w \in RulesetAt(m_rulesets', ruleset_id).m_filters)
            => /\ op'.name \in {"enable_disable", "enable_disable_tags"}
               /\ op'.enabled
               /\ op'.ruleset_id = ruleset_id
               /\ IF op'.name = "enable_disable"
                  THEN NameSelected(op'.match, op'.pattern, heap[w].rule.name)
                  ELSE op'.tags \cap heap[w].rule.tags # {}]_vars

(* an add of a rule while an entry of the same rule, which any pattern or  *)
(* tag set selects together with it, is enabled in a ruleset               *)
C8_Witness ==
    /\ op.name = "add"
    /\ op.ret = "ok"
    /\ \E i \in 1..Len(m_rulesets) :
          /\ \E w \in m_rulesets[i].m_filters : heap[w].rule = op.rule
          /\ op.wrap \notin m_rulesets[i].m_filters
          /\ \E evt \in Events : run_one(m_rulesets, heap, evt, NoRule, i - 1).ret

(* C9: a failing add is atomic: when the derivation of the codes fails,    *)
(* add ends in the registration error, and then all_entries holds exactly  *)
(* the entries it held before and every ruleset is unchanged.              *)
C9_AddAtomic ==
    op.name = "add" =>
        /\ (op.rule.source = syscall_source /\ ~op.condition.ok)
              => op.ret = "falco_exception"
        /\ op.ret = "falco_exception" =>
              /\ m_filters = pre.m_filters
              /\ heap = pre.heap
              /\ m_rulesets = pre.m_rulesets

(* an add that fails on a registry with an enabled entry *)
C9_Witness ==
    /\ op.name = "add"
    /\ op.ret = "falco_exception"
    /\ m_filters # {}
    /\ \E i \in 1..Len(m_rulesets) : m_rulesets[i].m_filters # {}

(* C10: enable, disable, enable_tags, disable_tags and enabled_count on    *)
(* ruleset id r leave rulesets max(previous length, r + 1) long, leave     *)
(* every ruleset id other than r as it was (a newly created id empty), and *)
(* leave a newly created r empty unless the call enables into it.          *)
C10_GrowthIsolation ==
    op.name \in {"enable_disable", "enable_disable_tags", "enabled_count"} =>
        LET r == op.ruleset_id
            before == Len(pre.m_rulesets)
        IN  /\ Len(m_rulesets) = IF before >= r + 1 THEN before ELSE r + 1
            /\ \A i \in 0..(Len(m_rulesets) - 1) :
                  i # r => m_rulesets[i + 1] = RulesetAt(pre.m_rulesets, i)
            /\ (op.name = "enabled_count" \/ ~op.enabled) =>
                  (r >= before => m_rulesets[r + 1] = EmptyRuleset)
            /\ op.name = "enabled_count" =>
                  /\ m_rulesets[r + 1] = RulesetAt(pre.m_rulesets, r)
                  /\ op.ret = Cardinality(RulesetAt(pre.m_rulesets, r).m_filters)
            /\ IndexedIn(m_rulesets[r + 1]) \subseteq m_filters

(* an enable on the first id past the end of rulesets, while a lower id    *)
(* holds enabled entries                                                   *)
C10_Witness ==
    /\ op.name \in {"enable_disable", "enable_disable_tags"}
    /\ op.enabled
    /\ op.ruleset_id >= Len(pre.m_rulesets)
    /\ Len(pre.m_rulesets) > 0
    /\ pre.m_rulesets[1].m_filters # {}
    /\ m_rulesets[1] = pre.m_rulesets[1]
    /\ m_rulesets[op.ruleset_id + 1].m_filters # {}
    /\ m_rulesets[op.ruleset_id + 1].m_filters # m_rulesets[1].m_filters

(* C11: run, in either form and on any ruleset id, leaves all_entries, the *)
(* length of rulesets and every ruleset as they were; on a ruleset id not  *)
(* below the length of rulesets it returns no match, evaluates no          *)
(* predicate and does not grow rulesets.                                   *)
C11_RunReadOnly ==
    op.name \in {"run_one", "run_all"} =>
        /\ heap = pre.heap
        /\ m_filters = pre.m_filters
        /\ m_rulesets = pre.m_rulesets
        /\ op.ruleset_id >= Len(pre.m_rulesets) =>
              /\ op.ret = FALSE
              /\ op.evald = <<>>
              /\ Len(m_rulesets) = Len(pre.m_rulesets)
              /\ op.name = "run_one" => op.match = op.match_in
              /\ op.name = "run_all" => op.matches = op.matches_in

(* a run on the first ruleset id past the end, for an event that matches   *)
(* on ruleset 0                                                            *)
C11_Witness ==
    /\ op.name \in {"run_one", "run_all"}
    /\ Len(pre.m_rulesets) = 1
    /\ op.ruleset_id = 1
    /\ op.ret = FALSE
    /\ Len(m_rulesets) = 1
    /\ run_one(m_rulesets, heap, op.evt, NoRule, 0).ret

(* C12: every entry of all_entries has the async-event code in its         *)
(* event_types; an entry of plugin origin has event_types = {plugin-event  *)
(* code, async-event code} and no operation codes, whatever its condition; *)
(* an entry of syscall origin has the event codes derived from its         *)
(* condition plus the async-event code and the derived operation codes;    *)
(* neither set changes while the entry exists.                             *)
C12_CodeDerivation ==
    [][/\ \A w \in m_filters' :
            /\ PPME_ASYNCEVENT_E \in heap'[w].event_codes
            /\ heap'[w].rule.source # syscall_source =>
                  /\ heap'[w].event_codes = {PPME_PLUGINEVENT_E, PPME_ASYNCEVENT_E}
                  /\ heap'[w].sc_codes = {}
       /\ (op'.name = "add" /\ op'.ret = "ok") =>
            /\ op'.wrap \in m_filters'
            /\ heap'[op'.wrap].rule = op'.rule
            /\ heap'[op'.wrap].filter = op'.filter
            /\ op'.rule.source = syscall_source =>
                  /\ heap'[op'.wrap].event_codes
                        = op'.condition.event_codes \cup {PPME_ASYNCEVENT_E}
                  /\ heap'[op'.wrap].sc_codes = op'.condition.sc_codes
       /\ \A w \in m_filters :
            w \in m_filters' => heap'[w] = heap[w]]_vars

(* an add of a plugin rule whose condition names an event code, next to a  *)
(* syscall entry                                                           *)
C12_Witness ==
    /\ op.name = "add"
    /\ op.ret = "ok"
    /\ op.rule.source = plugin_source
    /\ op.condition.event_codes # {}
    /\ heap[op.wrap].event_codes = {PPME_PLUGINEVENT_E, PPME_ASYNCEVENT_E}
    /\ \E w \in m_filters :
          /\ heap[w].rule.source = syscall_source
          /\ Cardinality(heap[w].event_codes) = 3

(* C13: entries are told apart by identity: adding a rule and predicate a  *)
(* second time leaves two entries in all_entries; an enable that selects   *)
(* them on an empty ruleset makes enabled_count 2, and an all-matches run  *)
(* on an event that satisfies the predicate returns the rule twice.        *)
C13_IdentityEntries ==
    /\ (op.name = "add" /\ op.ret = "ok") =>
          /\ op.wrap \notin pre.m_filters
          /\ m_filters = pre.m_filters \cup {op.wrap}
          /\ Cardinality(m_filters) = Cardinality(pre.m_filters) + 1
    /\ op.name = "enable_disable" =>
          \A w1 \in m_filters, w2 \in m_filters :
              (/\ w1 # w2
               /\ heap[w1] = heap[w2]
               /\ op.enabled
               /\ RulesetAt(pre.m_rulesets, op.ruleset_id).m_filters = {}
               /\ NameSelected(op.match, op.pattern, heap[w1].rule.name))
              => /\ {w1, w2} \subseteq m_rulesets[op.ruleset_id + 1].m_filters
                 /\ num_filters(m_rulesets[op.ruleset_id + 1]) >= 2
    /\ op.name = "enabled_count" =>
          op.ret = Cardinality(RulesetAt(pre.m_rulesets, op.ruleset_id).m_filters)
    /\ (op.name = "run_all" /\ op.ruleset_id < Len(pre.m_rulesets)) =>
          \A w1 \in m_filters, w2 \in m_filters :
              (/\ w1 # w2
               /\ heap[w1] = heap[w2]
               /\ pre.m_rulesets[op.ruleset_id + 1].m_filters = {w1, w2}
               /\ op.evt.type \in heap[w1].event_codes
               /\ op.evt.pay \in heap[w1].filter)
              => op.matches = op.matches_in \o <<heap[w1].rule, heap[w1].rule>>

(* the same rule and predicate added twice, both enabled: an all-matches   *)
(* run returns the rule twice                                              *)
C13_Witness ==
    /\ op.name = "run_all"
    /\ op.ruleset_id < Len(m_rulesets)
    /\ \E w1 \in m_filters, w2 \in m_filters :
          /\ w1 # w2
          /\ heap[w1] = heap[w2]
          /\ m_rulesets[op.ruleset_id + 1].m_filters = {w1, w2}
          /\ op.matches = <<heap[w1].rule, heap[w1].rule>>

(* C15: enabled_event_codes (and enabled_evttypes) of a ruleset return    *)
(* exactly the union of the event_types of its members, enabled_sc_codes   *)
(* the union of their operation codes, after any sequence of add, enable,  *)
(* disable and clear; for a ruleset id not below the length of rulesets    *)
(* they return the empty set and do not grow rulesets.                     *)
C15_CodeQueries ==
    op.name \in {"enabled_event_codes", "enabled_evttypes", "enabled_sc_codes"} =>
        LET members == RulesetAt(pre.m_rulesets, op.ruleset_id).m_filters
        IN  /\ op.name = "enabled_sc_codes" =>
                  op.ret = UNION {pre.heap[w].sc_codes : w \in members}
            /\ op.name # "enabled_sc_codes" =>
                  op.ret = UNION {pre.heap[w].event_codes : w \in members}
            /\ op.ruleset_id >= Len(pre.m_rulesets) => op.ret = {}
            /\ Len(m_rulesets) = Len(pre.m_rulesets)

(* a code query on a ruleset of two members whose code sets differ *)
C15_Witness ==
    /\ op.name = "enabled_event_codes"
    /\ op.ruleset_id < Len(m_rulesets)
    /\ \E w1 \in m_rulesets[op.ruleset_id + 1].m_filters,
          w2 \in m_rulesets[op.ruleset_id + 1].m_filters :
          /\ ~(heap[w1].event_codes \subseteq heap[w2].event_codes)
          /\ ~(heap[w2].event_codes \subseteq heap[w1].event_codes)
          /\ op.ret = heap[w1].event_codes \cup heap[w2].event_codes

(* wrapper w is in the bucket of event type t of a ruleset *)
InTypeBucket(rs, t, w) == w \in SeqToSet(BucketOf(rs, t))

(* wrapper w is in the list of a ruleset for all event types *)
InCatchAll(rs, w) == w \in SeqToSet(rs.m_filter_all_event_types)

(* the event types a ruleset has a bucket for *)
BucketTypes(rs) == {t \in 0..Len(rs.m_filter_by_event_type) :
                        t < Len(rs.m_filter_by_event_type)}

(* C16: in every reachable state and every ruleset, an entry is a member   *)
(* iff it is in the bucket of every code of its event_types (or, when its  *)
(* event_types is empty, in catch_all and in no bucket); an entry that is  *)
(* not a member is in no bucket and not in catch_all; no entry is in a     *)
(* bucket whose code is not in its event_types.                            *)
C16_IndexConsistency ==
    \A i \in 1..Len(m_rulesets) :
        LET rs == m_rulesets[i]
        IN  \A w \in DOMAIN heap :
              IF heap[w] = NoWrap
              THEN w \notin IndexedIn(rs)
              ELSE LET codes == heap[w].event_codes
                   IN  /\ (w \in rs.m_filters /\ codes # {}) =>
                             /\ \A t \in codes : InTypeBucket(rs, t, w)
                             /\ ~InCatchAll(rs, w)
                       /\ (w \in rs.m_filters /\ codes = {}) =>
                             /\ InCatchAll(rs, w)
                             /\ \A t \in BucketTypes(rs) : ~InTypeBucket(rs, t, w)
                       /\ w \notin rs.m_filters =>
                             /\ ~InCatchAll(rs, w)
                             /\ \A t \in BucketTypes(rs) : ~InTypeBucket(rs, t, w)
                       /\ \A t \in BucketTypes(rs) :
                             InTypeBucket(rs, t, w) => t \in codes

(* after a remove_filter of an entry of two codes, the ruleset still holds *)
(* a member in two buckets and a member in catch_all                       *)
C16_Witness ==
    /\ op.name = "remove_filter"
    /\ Cardinality(heap[op.wrap].event_codes) = 2
    /\ op.wrap \in pre.m_rulesets[1].m_filters
    /\ \E w \in m_rulesets[1].m_filters : heap[w].event_codes = {}
    /\ \E w \in m_rulesets[1].m_filters : heap[w].event_codes # {}

(* a list of wrappers is in the iteration order of all_entries *)
InRegistryOrder(list) ==
    \A i \in 1..Len(list), j \in 1..Len(list) : i < j => list[i] < list[j]

(* the rule of the first entry of a list whose predicate is true on the    *)
(* event of op                                                             *)
FirstTrueRule(list) == pre.heap[list[SetMin(TruePositions(list))]].rule

(* C17 as stated: within every type bucket of every ruleset the entries    *)
(* are in the same relative order as in all_entries, whatever the order of *)
(* the enable and disable calls; single-match run returns, among the true  *)
(* entries of the event's bucket, the one first in all_entries order.      *)
C17_RegistryOrder ==
    /\ \A i \in 1..Len(m_rulesets) : \A t \in BucketTypes(m_rulesets[i]) :
          InRegistryOrder(BucketOf(m_rulesets[i], t))
    /\ (op.name = "run_one" /\ op.ret) =>
          LET bucket == BucketOf(pre.m_rulesets[op.ruleset_id + 1], op.evt.type)
              true == {bucket[i] : i \in TruePositions(bucket)}
          IN  op.match = pre.heap[SetMin(true)].rule

(* C17, amended: a type bucket is in the order in which its entries were   *)
(* enabled: an enable call leaves the entries of the bucket where they     *)
(* were and appends the entries it newly enables after them, these in      *)
(* all_entries order among themselves; a disable call takes entries out    *)
(* and leaves the others in their order; single-match run returns, among   *)
(* the true entries of the event's bucket, the one first in bucket order.  *)
C17_EnableOrder ==
    /\ op.name \in {"enable_disable", "enable_disable_tags"} =>
          LET before == RulesetAt(pre.m_rulesets, op.ruleset_id)
              after == m_rulesets[op.ruleset_id + 1]
              Member(w) == w \in after.m_filters
          IN  \A t \in BucketTypes(before) \cup BucketTypes(after) :
                LET old == BucketOf(before, t)
                    new == BucketOf(after, t)
                IN  IF op.enabled
                    THEN /\ Len(new) >= Len(old)
                         /\ SubSeq(new, 1, Len(old)) = old
                         /\ InRegistryOrder(SubSeq(new, Len(old) + 1, Len(new)))
                         /\ SeqToSet(new) =
                               {w \in after.m_filters : t \in heap[w].event_codes}
                    ELSE new = SelectSeq(old, Member)
    /\ (op.name = "run_one" /\ op.ret) =>
          LET bucket == BucketOf(pre.m_rulesets[op.ruleset_id + 1], op.evt.type)
          IN  /\ TruePositions(bucket) # {}
              /\ op.match = FirstTrueRule(bucket)

(* an enable appends an entry behind one that comes later in all_entries,  *)
(* and a single-match run then returns the rule of the later one           *)
C17_Witness ==
    /\ op.name = "run_one"
    /\ op.ret
    /\ LET bucket == BucketOf(pre.m_rulesets[op.ruleset_id + 1], op.evt.type)
       IN  /\ Len(bucket) = 2
           /\ bucket[1] > bucket[2]
           /\ TruePositions(bucket) = {1, 2}
           /\ heap[bucket[1]].rule # heap[bucket[2]].rule
           /\ op.match = heap[bucket[1]].rule

(* the operations of the detection phase *)
DetectionOps ==
    {"run_one", "run_all", "enabled_count",
     "enabled_event_codes", "enabled_evttypes", "enabled_sc_codes"}

(* the registry is as the last call found it *)
RegistryAsBefore ==
    /\ heap = pre.heap
    /\ m_filters = pre.m_filters
    /\ m_rulesets = pre.m_rulesets

(* C18 as stated: the length of rulesets changes only during enable or     *)
(* disable, by pattern or by tags; no operation of the detection phase     *)
(* (run in either form, enabled_count, enabled_event_types,                *)
(* enabled_operation_codes) changes the length of rulesets or any other    *)
(* registry state.                                                         *)
C18_GrowthOnlyInMutation ==
    /\ Len(m_rulesets) # Len(pre.m_rulesets) =>
          op.name \in {"enable_disable", "enable_disable_tags"}
    /\ op.name \in DetectionOps => RegistryAsBefore

(* C18, amended: the length of rulesets changes only during enable or      *)
(* disable, by pattern or by tags, and during enabled_count; run in either *)
(* form, enabled_event_types and enabled_operation_codes change no         *)
(* registry state; enabled_count changes nothing but the length of         *)
(* rulesets, by appending empty rulesets up to the id it was given.        *)
C18_GrowthInEnableAndCount ==
    /\ Len(m_rulesets) # Len(pre.m_rulesets) =>
          op.name \in {"enable_disable", "enable_disable_tags", "enabled_count"}
    /\ op.name \in DetectionOps \ {"enabled_count"} => RegistryAsBefore
    /\ op.name = "enabled_count" =>
          /\ heap = pre.heap
          /\ m_filters = pre.m_filters
          /\ Len(m_rulesets) = IF op.ruleset_id < Len(pre.m_rulesets)
                               THEN Len(pre.m_rulesets)
                               ELSE op.ruleset_id + 1
          /\ \A i \in 1..Len(m_rulesets) :
                m_rulesets[i] = RulesetAt(pre.m_rulesets, i - 1)

(* enabled_count on an id past the end, next to a ruleset with members:    *)
(* rulesets is one longer                                                  *)
C18_Witness ==
    /\ op.name = "enabled_count"
    /\ op.ret = 0
    /\ Len(pre.m_rulesets) = 1
    /\ Len(m_rulesets) = 2
    /\ m_rulesets[1].m_filters # {}
    /\ m_rulesets[2] = EmptyRuleset

(* sequence s is the start of sequence l *)
IsPrefix(s, l) == Len(s) <= Len(l) /\ SubSeq(l, 1, Len(s)) = s

(* C14: when run calls are interleaved filter by filter and no mutating    *)
(* operation runs, the registry is the same at every step and every call   *)
(* returns what it returns when executed alone; until then it has run the  *)
(* filters a call executed alone runs, in that order.                      *)
C14_ConcurrentRuns ==
    /\ heap = pre.heap
    /\ m_filters = pre.m_filters
    /\ m_rulesets = pre.m_rulesets
    /\ \A t \in Threads :
          LET f == op.calls[t]
              one == run_one(pre.m_rulesets, pre.heap, f.evt, NoRule, f.ruleset_id)
              all == run_all(pre.m_rulesets, pre.heap, f.evt, <<>>, f.ruleset_id)
              alone == IF f.form = "one" THEN one.evald ELSE all.evald
          IN  /\ f.pc # "idle" => IsPrefix(f.evald, alone)
              /\ f.pc = "done" =>
                    /\ f.evald = alone
                    /\ f.form = "one" => f.ret = one.ret /\ f.match = one.match
                    /\ f.form = "all" => f.ret = all.ret /\ f.matches = all.matches

(* a call that ran filters while another call was inside a loop has        *)
(* returned a match, and another call on the same ruleset is inside a loop *)
C14_Witness ==
    \E t \in Threads, u \in Threads :
        /\ t # u
        /\ op.calls[t].pc = "done"
        /\ op.calls[t].overlapped
        /\ op.calls[t].ret
        /\ Len(op.calls[t].evald) >= 2
        /\ InLoop(op.calls[u])
        /\ op.calls[u].overlapped
        /\ op.calls[u].ruleset_id = op.calls[t].ruleset_id

(* C19: during a run on event e a filter is run only for entries of the    *)
(* bucket of e's type and of catch_all; an entry of catch_all only after   *)
(* every entry of the bucket was run and was false; in the single-match    *)
(* form no filter is run after the first true one; no filter is run twice  *)
(* in one run.                                                             *)
C19_EvalOrder ==
    \A t \in Threads :
        LET f == op.calls[t]
            rs == RulesetAt(m_rulesets, f.ruleset_id)
            bucket == SeqToSet(BucketOf(rs, f.evt.type))
            catch_all == SeqToSet(rs.m_filter_all_event_types)
            IsTrue(w) == f.evt.pay \in heap[w].filter
            n == Len(f.evald)
        IN  f.pc # "idle" =>
              /\ \A i \in 1..n : f.evald[i] \in bucket \cup catch_all
              /\ \A i \in 1..n :
                    f.evald[i] \in catch_all =>
                        \A w \in bucket :
                            ~IsTrue(w) /\ \E j \in 1..(i - 1) : f.evald[j] = w
              /\ f.form = "one" =>
                    /\ \A i \in 1..(n - 1) : ~IsTrue(f.evald[i])
                    /\ InLoop(f) => \A i \in 1..n : ~IsTrue(f.evald[i])
              /\ \A i \in 1..n, j \in 1..n : i # j => f.evald[i] # f.evald[j]

(* a single-match call has run a false bucket entry, then a true catch_all *)
(* entry, and has returned with a catch_all entry left                     *)
C19_Witness ==
    \E t \in Threads :
        LET f == op.calls[t]
            rs == RulesetAt(m_rulesets, f.ruleset_id)
        IN  /\ f.pc = "done"
            /\ f.form = "one"
            /\ f.ret
            /\ Len(f.evald) >= 2
            /\ f.evald[1] \in SeqToSet(BucketOf(rs, f.evt.type))
            /\ f.evald[Len(f.evald)] \in SeqToSet(rs.m_filter_all_event_types)
            /\ Len(f.evald) < Len(BucketOf(rs, f.evt.type))
                                + Len(rs.m_filter_all_event_types)

(* C20: in every state reachable through the public operations, catch_all *)
(* of every ruleset is empty and every enabled entry is in the bucket of   *)
(* the async-event code; so a run returns no match on an event whose type  *)
(* is in the event_types of no enabled entry, and on an event of the       *)
(* async-event type every enabled entry whose predicate is true matches.   *)
C20_AsyncIndexing ==
    /\ \A i \in 1..Len(m_rulesets) :
          /\ m_rulesets[i].m_filter_all_event_types = <<>>
          /\ \A w \in m_rulesets[i].m_filters :
                InTypeBucket(m_rulesets[i], PPME_ASYNCEVENT_E, w)
    /\ op.name \in {"run_one", "run_all"} =>
          LET members == RulesetAt(pre.m_rulesets, op.ruleset_id).m_filters
              true == {w \in members : op.evt.pay \in pre.heap[w].filter}
          IN  /\ op.ret => \E w \in members : op.evt.type \in pre.heap[w].event_codes
              /\ op.evt.type = PPME_ASYNCEVENT_E =>
                    /\ op.ret = (true # {})
                    /\ op.name = "run_one" =>
                          (op.ret => \E w \in true : op.match = pre.heap[w].rule)
                    /\ op.name = "run_all" =>
                          /\ Len(op.matches) = Cardinality(true)
                          /\ SeqToSet(op.matches) = {pre.heap[w].rule : w \in true}

(* an all-matches run on an async event returns the rules of two enabled   *)
(* entries, one of each source, that share no other event code             *)
C20_Witness ==
    /\ op.name = "run_all"
    /\ op.evt.type = PPME_ASYNCEVENT_E
    /\ op.ruleset_id < Len(m_rulesets)
    /\ Len(op.matches) = 2
    /\ \E w1 \in m_rulesets[op.ruleset_id + 1].m_filters,
          w2 \in m_rulesets[op.ruleset_id + 1].m_filters :
          /\ heap[w1].event_codes \cap heap[w2].event_codes = {PPME_ASYNCEVENT_E}
          /\ heap[w1].rule.source # heap[w2].rule.source
          /\ op.matches = <<heap[w1].rule, heap[w2].rule>>

=============================================================================
